---- MODULE Spec2Model ----
(***************************************************************************)
(* A model of the Solana AI Trader core: the SolanaAITrader predictor      *)
(* ensemble (src/models/ai_model.py), its persistence (save_models /       *)
(* load_models), the rule-based signal fusion of generate_trading_signals  *)
(* and the startup handler of the HTTP layer                               *)
(* (src/my-ai-projects/backend/api.py).                                    *)
(*                                                                         *)
(* Abstractions.                                                           *)
(*  - A fitted estimator (regressor, classifier, forecaster, scaler) is    *)
(*    identified by the training run that fitted it: run ids 1, 2, ...     *)
(*    are handed out in the order the fit calls happen.                    *)
(*  - The numeric output of a fitted estimator is opaque; it is modelled   *)
(*    as a code of everything it is computed from (estimator, scaler,      *)
(*    feature row), so a change of any of them shows in the prediction.    *)
(*  - Real numbers the code divides are kept as exact fractions [n, d].    *)
(*  - A series (DataFrame) is reduced to what the modelled code reads of   *)
(*    it: the RSI and MACD-histogram value of its last row, and whether    *)
(*    the frame already carried indicator columns when it was passed in.   *)
(*  - For the indicator engine a series is the set of input columns it     *)
(*    has, the shape of its rows, and one indicator column followed cell   *)
(*    by cell (<< >> is an undefined cell) through the fill policy; a      *)
(*    frame is the map from its column names to where their values come    *)
(*    from.                                                                *)
(*  - For training a series is its number of bars, oldest first; a         *)
(*    partition is the set of row positions it holds.                      *)
(*  - An HTTP handler is one step: it has no suspension point between its  *)
(*    test of the global ai_trader and its response. Where concurrency is  *)
(*    the question the step is cut at the handler's await, and pending     *)
(*    holds the requests suspended there.                                  *)
(*  - A websocket connection is a number, given in the order of accept;    *)
(*    its client is open or gone and its handler stands at one of the      *)
(*    awaits of its loop.                                                  *)
(***************************************************************************)
EXTENDS Integers, Sequences, FiniteSets, TLC

\* ------------------------------------------------------------------------
\* Bounds of the model
\* ------------------------------------------------------------------------
\* number of fit calls (training runs) over a behaviour
MaxRuns == 3
\* number of rows of an indicator column whose cells are followed one by one
MaxCells == 3

\* the longest series handed to a training call, in bars
MaxBars == 10

\* number of fit calls the HTTP handlers make over a behaviour
MaxFits == 6

\* number of HTTP requests in flight at a time
MaxPending == 2

\* number of websocket connections accepted over a behaviour
MaxConnections == 3

\* ------------------------------------------------------------------------
\* Program constants
\* ------------------------------------------------------------------------
\* Python None: an ensemble member that is not trained
None == 0
\* StandardScaler() as constructed, before any fit
Unfitted == 0
\* RSI thresholds of the discretisation and the reading used when the row
\* has no 'rsi' entry
RsiOversold == 30
RsiOverbought == 70
RsiDefault == 50
\* MACD-histogram threshold and the reading used when the row has no
\* 'macd_diff' entry
MacdDefault == 0
MacdThreshold == 0
\* points contributed by the trend classification
TrendWeight == 2

\* the ordered feature list assigned by prepare_features
FeatureColumns ==
  << "rsi", "macd", "macd_signal", "macd_diff",
     "bb_high", "bb_low", "bb_mid",
     "ema_9", "ema_21", "sma_50",
     "volume_ratio", "price_change",
     "high_low_ratio", "close_open_ratio",
     "volatility" >>

\* the four files of a saved bundle, in the order load_models reads them
ModelFiles ==
  << "price_predictor.pkl", "trend_classifier.pkl", "scaler.pkl",
     "prophet_model.pkl" >>

FileNames == {ModelFiles[i] : i \in 1..Len(ModelFiles)}

\* ------------------------------------------------------------------------
\* Inputs
\* ------------------------------------------------------------------------
\* RSI readings around both thresholds, MACD-histogram readings around 0
RsiReadings == {25, 30, 50, 70, 75}
MacdReadings == {-1, 0, 1}

\* A series handed to the trader: rsi / macd_diff are the indicator values
\* of its last row; carried says whether the frame already had the indicator
\* columns when it was passed in (a frame that went through an earlier
\* calculate_technical_indicators call, which writes its columns in place).
DataFrames ==
  [rsi : RsiReadings, macd_diff : MacdReadings, carried : BOOLEAN]

\* The feature row prepare_features(df).iloc[-1:] yields
FeatureRow(df) == [rsi |-> df.rsi, macd_diff |-> df.macd_diff]

\* feature rows handed to predict_price / predict_trend directly
FeatureRows == [rsi : {30, 75}, macd_diff : {1}]

VARIABLES
  price_predictor,   \* None or the run that fitted the regressor
  trend_classifier,  \* None or the run that fitted the classifier
  scaler,            \* Unfitted or the run of the last fit_transform
  prophet_model,     \* None or the run that fitted the forecaster
  feature_columns,   \* << >> or FeatureColumns
  runs,              \* number of fit calls so far
  disk,              \* the save directory: file name -> << >> (no readable
                     \* file) or <<the object pickled in it>>
  saved,             \* << >> or <<the four parts last written by save_models>>
  pending,           \* HTTP requests suspended at their await
  active_connections,\* ConnectionManager.active_connections, in list order
  sockets,           \* websocket -> its client's state and where its
                     \* handler stands
  ret                \* outcome of the last operation

vars ==
  << price_predictor, trend_classifier, scaler, prophet_model,
     feature_columns, runs, disk, saved, pending, active_connections,
     sockets, ret >>

\* the state of the HTTP layer besides the global ai_trader
net == << pending, active_connections, sockets >>

\* exact fractions
Frac(a, b) == [n |-> a, d |-> b]
FracEq(x, y) == x.n * y.d = y.n * x.d

RECURSIVE SumSeq(_)
SumSeq(s) == IF s = << >> THEN 0 ELSE Head(s) + SumSeq(Tail(s))

\* ------------------------------------------------------------------------
\* SolanaAITrader.__init__
\* ------------------------------------------------------------------------
Init ==
  /\ price_predictor = None
  /\ trend_classifier = None
  /\ scaler = Unfitted
  /\ prophet_model = None
  /\ feature_columns = << >>
  /\ runs = 0
  /\ disk = [f \in FileNames |-> << >>]
  /\ saved = << >>
  /\ pending = {}
  /\ active_connections = << >>
  /\ sockets = [w \in 1..MaxConnections |-> [client |-> "none", pc |-> "idle"]]
  /\ ret = [op |-> "__init__"]

\* ------------------------------------------------------------------------
\* calculate_technical_indicators
\* ------------------------------------------------------------------------
\* the five input columns the method tests for
OhlcvColumns == {"open", "high", "low", "close", "volume"}

\* the columns the method adds, in the order it adds them: those computed
\* before the first read of df['volume'], and those from it on
IndicatorsFromClose ==
  << "rsi", "macd", "macd_signal", "macd_diff",
     "bb_high", "bb_low", "bb_mid",
     "ema_9", "ema_21", "sma_50" >>

IndicatorsFromVolume ==
  << "volume_ema", "volume_ratio",
     "price_change", "high_low_ratio", "close_open_ratio",
     "volatility", "support", "resistance" >>

Range(q) == {q[i] : i \in DOMAIN q}

IndicatorColumns == Range(IndicatorsFromClose) \cup Range(IndicatorsFromVolume)

\* A cell of a column is << >> (undefined, NaN) or <<v>>. An indicator
\* column as the indicator library returns it, before any fill, is any
\* sequence of cells: rolling windows leave undefined cells at the top,
\* a division 0/0 leaves them anywhere.
Cells == {<< >>, << 1 >>, << 2 >>}

RawColumns == UNION {[1..n -> Cells] : n \in 1..MaxCells}

\* what may be wrong with a series the caller hands in
Shapes ==
  {"valid", "duplicate_timestamps", "decreasing_timestamps",
   "negative_price", "negative_volume"}

\* A series handed to the indicator engine: the input columns it has, its
\* shape, and the raw content of an indicator column computed from it.
\* fillna works on each column by itself, so one column stands for each.
\* The series tried are every frame of input columns in every shape, with
\* one raw column, and the complete valid frame with every raw column.
Series ==
  [present : SUBSET OhlcvColumns, shape : Shapes, raw : {<< << >>, << 1 >> >>}]
  \cup [present : {OhlcvColumns}, shape : {"valid"}, raw : RawColumns]

\* the caller's frame: column -> where its content comes from (an input
\* column holds its own data or a copy of close; an indicator column holds
\* the raw, unfilled indicator)
CallerFrame(series) == [c \in series.present |-> c]

\* lines 30-34: when one of the five columns is missing, high, low and open
\* are all three assigned df['close']
NeedsDefaults(series) == ~(OhlcvColumns \subseteq series.present)

WithDefaults(frame) ==
  [c \in DOMAIN frame \cup {"high", "low", "open"} |->
     IF c \in {"high", "low", "open"} THEN "close" ELSE frame[c]]

WithIndicators(frame, names) ==
  [c \in DOMAIN frame \cup names |-> IF c \in names THEN "raw" ELSE frame[c]]

\* DataFrame.fillna(method='ffill'): an undefined cell takes the last defined
\* cell above it, if there is one
RECURSIVE LastDefined(_, _)
LastDefined(col, i) ==
  IF i = 0 THEN << >>
  ELSE IF col[i] # << >> THEN col[i]
  ELSE LastDefined(col, i - 1)

\* mutant: an undefined cell takes the column's first defined value
ForwardFill_FromFirst(col) ==
  [i \in DOMAIN col |->
     IF col[i] # << >> THEN col[i]
     ELSE IF \E j \in 1..(i - 1) : col[j] # << >>
     THEN col[CHOOSE j \in 1..(i - 1) :
                /\ col[j] # << >>
                /\ \A k \in 1..(j - 1) : col[k] = << >>]
     ELSE << >>]

ForwardFill(col) == [i \in DOMAIN col |-> LastDefined(col, i)]

\* DataFrame.fillna(0)
ZeroFill(col) == [i \in DOMAIN col |-> IF col[i] = << >> THEN << 0 >> ELSE col[i]]

\* mutant: the forward fill alone, without the fill with 0
FillPolicy_ForwardOnly(col) == ForwardFill(col)

\* df.fillna(method='ffill').fillna(0)
FillPolicy(col) == ZeroFill(ForwardFill(col))

\* mutant: a frame without all five input columns is refused
CalculateTechnicalIndicatorsResult_Strict(series) ==
  IF NeedsDefaults(series)
  THEN [raised |-> TRUE, caller |-> CallerFrame(series)]
  ELSE LET f == WithIndicators(CallerFrame(series),
                               Range(IndicatorsFromClose)
                               \cup Range(IndicatorsFromVolume))
       IN [raised |-> FALSE, caller |-> f, returned |-> f,
           filled |-> FillPolicy(series.raw)]

\* The outcome of calculate_technical_indicators(df): whether it raised, the
\* caller's frame after the call (the method assigns its columns to df
\* itself), and the frame it returns (the filled copy).
CalculateTechnicalIndicatorsResult(series) ==
  LET f0 == CallerFrame(series)
  IN IF NeedsDefaults(series) /\ "close" \notin series.present
     THEN \* KeyError at df['close'], line 32
          [raised |-> TRUE, caller |-> f0]
     ELSE LET f1 == IF NeedsDefaults(series) THEN WithDefaults(f0) ELSE f0
              f2 == WithIndicators(f1, Range(IndicatorsFromClose))
          IN IF "volume" \notin series.present
             THEN \* KeyError at df['volume'], line 57
                  [raised |-> TRUE, caller |-> f2]
             ELSE LET f3 == WithIndicators(f2, Range(IndicatorsFromVolume))
                  IN [raised |-> FALSE, caller |-> f3,
                      returned |-> f3,
                      filled |-> FillPolicy(series.raw)]

CalculateTechnicalIndicators(series) ==
  /\ ret' = [op |-> "calculate_technical_indicators", series |-> series]
            @@ CalculateTechnicalIndicatorsResult(series)
  /\ UNCHANGED << price_predictor, trend_classifier, scaler, prophet_model,
                  feature_columns, runs, disk, saved, net >>

\* ------------------------------------------------------------------------
\* prepare_features
\* ------------------------------------------------------------------------
\* df[self.feature_columns]: the returned frame's columns, in order
PrepareFeaturesResult(series) ==
  LET r == CalculateTechnicalIndicatorsResult(series)
  IN IF r.raised
     THEN r
     ELSE [raised |-> FALSE, caller |-> r.caller,
           columns |-> FeatureColumns, filled |-> r.filled]

PrepareFeatures(series) ==
  /\ feature_columns' =
       IF PrepareFeaturesResult(series).raised THEN feature_columns
       ELSE FeatureColumns
  /\ ret' = [op |-> "prepare_features", series |-> series]
            @@ PrepareFeaturesResult(series)
  /\ UNCHANGED << price_predictor, trend_classifier, scaler, prophet_model,
                  runs, disk, saved, net >>

\* ------------------------------------------------------------------------
\* Opaque estimator outputs
\* ------------------------------------------------------------------------
\* what a fitted estimator sees of a feature row
FeatureCode(x) == x.rsi + x.macd_diff

\* RandomForestRegressor.predict(scaler.transform(x))[0]
RandomForestOutput(model, sc, x) == 1000 * model + 100 * sc + FeatureCode(x)

\* forecast['yhat'].iloc[-1]: one step past the forecaster's own history
ProphetOutput(model) == 500 + model

\* GradientBoostingClassifier.predict(scaler.transform(x))[0]
ClassifierOutput(model, sc, x) == (model + sc + FeatureCode(x)) % 2

\* ------------------------------------------------------------------------
\* predict_price
\* ------------------------------------------------------------------------
\* scaler.transform(current_features[self.feature_columns]) raises when the
\* scaler was never fitted or when no feature column is selected
TransformRaises(sc, fc) == sc = Unfitted \/ fc = << >>

\* mutant: the sum is always halved, as if both members had predicted
EnsemblePrediction_HalfSum(values) == Frac(SumSeq(values), 2)

\* np.mean(list(predictions.values()))
EnsemblePrediction(values) == Frac(SumSeq(values), Len(values))

\* the members' predictions in the order the code inserts them
MemberPredictions(pp, sc, pm, x) ==
  (IF pp # None THEN << RandomForestOutput(pp, sc, x) >> ELSE << >>)
  \o (IF pm # None THEN << ProphetOutput(pm) >> ELSE << >>)

\* the mapping predict_price returns when nothing raised
PredictPriceReturn(pp, sc, pm, x) ==
  LET members == MemberPredictions(pp, sc, pm, x)
      keys == (IF pp # None THEN {"random_forest"} ELSE {})
              \cup (IF pm # None THEN {"prophet"} ELSE {})
              \cup (IF members # << >> THEN {"ensemble"} ELSE {})
  IN [k \in keys |->
        IF k = "random_forest" THEN Frac(RandomForestOutput(pp, sc, x), 1)
        ELSE IF k = "prophet" THEN Frac(ProphetOutput(pm), 1)
        ELSE EnsemblePrediction(members)]

\* mutant: the regressor is used without the truth test on it
PredictPriceResult_Unguarded(pp, sc, pm, fc, x) ==
  IF pp = None \/ TransformRaises(sc, fc)
  THEN [raised |-> TRUE]
  ELSE [raised |-> FALSE, predictions |-> PredictPriceReturn(pp, sc, pm, x)]

PredictPriceResult(pp, sc, pm, fc, x) ==
  IF pp # None /\ TransformRaises(sc, fc)
  THEN [raised |-> TRUE]
  ELSE [raised |-> FALSE, predictions |-> PredictPriceReturn(pp, sc, pm, x)]

\* ------------------------------------------------------------------------
\* predict_trend
\* ------------------------------------------------------------------------
PredictTrendResult(tc, sc, fc, x) ==
  IF tc = None
  THEN [raised |-> FALSE, trend |-> "neutral", confidence |-> Frac(1, 2)]
  ELSE IF TransformRaises(sc, fc)
  THEN [raised |-> TRUE]
  ELSE [raised |-> FALSE,
        trend |-> IF ClassifierOutput(tc, sc, x) = 1 THEN "bullish" ELSE "bearish"]

\* ------------------------------------------------------------------------
\* generate_trading_signals: discretisation, scoring, decision
\* ------------------------------------------------------------------------
\* latest_data = df.iloc[-1] is taken before prepare_features(df) adds the
\* indicator columns: the row has an 'rsi' / 'macd_diff' entry only when the
\* frame carried the columns already
LatestRsi(df) == IF df.carried THEN df.rsi ELSE RsiDefault
LatestMacd(df) == IF df.carried THEN df.macd_diff ELSE MacdDefault

\* mutant: the thresholds themselves count as oversold / overbought
RsiSignal_Inclusive(v) ==
  IF v <= RsiOversold THEN "oversold"
  ELSE IF v >= RsiOverbought THEN "overbought"
  ELSE "neutral"

RsiSignal(v) ==
  IF v < RsiOversold THEN "oversold"
  ELSE IF v > RsiOverbought THEN "overbought"
  ELSE "neutral"

MacdSignal(v) == IF v > MacdThreshold THEN "bullish" ELSE "bearish"

\* mutant: the trend counts one point, like the indicators
BullishSignals_UnitTrend(trend, rsi_signal, macd_signal) ==
  (IF trend = "bullish" THEN 1 ELSE 0)
  + (IF rsi_signal = "oversold" THEN 1 ELSE 0)
  + (IF macd_signal = "bullish" THEN 1 ELSE 0)

BullishSignals(trend, rsi_signal, macd_signal) ==
  (IF trend = "bullish" THEN TrendWeight ELSE 0)
  + (IF rsi_signal = "oversold" THEN 1 ELSE 0)
  + (IF macd_signal = "bullish" THEN 1 ELSE 0)

\* mutant: only a trend called bearish scores for the bearish side
BearishSignals_BearishTrendOnly(trend, rsi_signal, macd_signal) ==
  (IF trend = "bearish" THEN TrendWeight ELSE 0)
  + (IF rsi_signal = "overbought" THEN 1 ELSE 0)
  + (IF macd_signal = "bullish" THEN 0 ELSE 1)

BearishSignals(trend, rsi_signal, macd_signal) ==
  (IF trend = "bullish" THEN 0 ELSE TrendWeight)
  + (IF rsi_signal = "oversold" THEN 0
     ELSE IF rsi_signal = "overbought" THEN 1 ELSE 0)
  + (IF macd_signal = "bullish" THEN 0 ELSE 1)

\* mutant: a plain majority, without the margin of one point
Recommendation_NoMargin(b, s) ==
  IF b > s THEN "BUY"
  ELSE IF s > b THEN "SELL"
  ELSE "HOLD"

Recommendation(b, s) ==
  IF b > s + 1 THEN "BUY"
  ELSE IF s > b + 1 THEN "SELL"
  ELSE "HOLD"

\* mutant: the bullish share is reported on both sides
Confidence_BullishShare(b, s) ==
  IF b > s + 1 THEN Frac(b, b + s)
  ELSE IF s > b + 1 THEN Frac(b, b + s)
  ELSE Frac(1, 2)

Confidence(b, s) ==
  IF b > s + 1 THEN Frac(b, b + s)
  ELSE IF s > b + 1 THEN Frac(s, b + s)
  ELSE Frac(1, 2)

GenerateTradingSignalsResult(pp, tc, sc, pm, fc, df) ==
  LET x == FeatureRow(df)
      price == PredictPriceResult(pp, sc, pm, fc, x)
      trend == PredictTrendResult(tc, sc, fc, x)
  IN IF price.raised \/ trend.raised
     THEN [op |-> "generate_trading_signals", raised |-> TRUE]
     ELSE LET rsi_signal == RsiSignal(LatestRsi(df))
              macd_signal == MacdSignal(LatestMacd(df))
              b == BullishSignals(trend.trend, rsi_signal, macd_signal)
              s == BearishSignals(trend.trend, rsi_signal, macd_signal)
          IN [op |-> "generate_trading_signals", raised |-> FALSE,
              computed |-> x,
              price_prediction |-> price.predictions,
              trend_analysis |-> trend.trend,
              rsi |-> [value |-> LatestRsi(df), signal |-> rsi_signal],
              macd |-> [value |-> LatestMacd(df), signal |-> macd_signal],
              bullish_signals |-> b,
              bearish_signals |-> s,
              recommendation |-> Recommendation(b, s),
              confidence |-> Confidence(b, s)]

\* ------------------------------------------------------------------------
\* Actions of SolanaAITrader
\* ------------------------------------------------------------------------
\* SolanaAITrader(): a new instance (the module-level ai_trader of a newly
\* started process, or any fresh instance a caller constructs)
NewTrader ==
  /\ price_predictor' = None
  /\ trend_classifier' = None
  /\ scaler' = Unfitted
  /\ prophet_model' = None
  /\ feature_columns' = << >>
  /\ ret' = [op |-> "__init__"]
  /\ UNCHANGED << runs, disk, saved, net >>

\* ---- Training on a series of n hourly bars, oldest first ----

\* the rows fetch_historical_data hands to the API handlers: days * 24
HistoryRows == 720

\* the largest rolling window of the indicator engine (sma_50)
LargestWindow == 50

\* rows left after valid_idx: the regressor's target close.shift(-1) is
\* undefined on the last row; the classifier's label is an int on every row
ValidRows(op, n) ==
  IF op = "train_price_predictor" THEN n - 1 ELSE n

\* mutant: the held-out fraction rounded down
TestSize_RoundedDown(m) == m \div 5

\* train_test_split(test_size=0.2): ceil(0.2 * m) rows are held out
TestSize(m) == (m + 4) \div 5

\* shuffle=False: the prefix trains, the suffix tests
TrainRows(m) == 1..(m - TestSize(m))

TestRows(m) == (m - TestSize(m) + 1)..m

\* train_test_split raises ValueError when the training partition is empty
SplitRaises(m) == m - TestSize(m) < 1

\* what a training call on n bars reports: the partitions, and the rows the
\* scaler's fit_transform saw
TrainResult(op, n) ==
  LET m == ValidRows(op, n)
  IN IF SplitRaises(m)
     THEN [raised |-> TRUE, error |-> "ValueError", rows |-> n, valid |-> m]
     ELSE [raised |-> FALSE, rows |-> n, valid |-> m,
           train |-> TrainRows(m), test |-> TestRows(m),
           scaler_fit |-> TrainRows(m)]

\* The estimator a fit produces is identified by its run, whatever the
\* series was (the classifier's training labels hold both classes).
TrainPricePredictorOn(n) ==
  LET r == TrainResult("train_price_predictor", n)
  IN /\ runs < MaxRuns
     /\ feature_columns' = FeatureColumns
     /\ ret' = [op |-> "train_price_predictor"] @@ r
     /\ IF r.raised
        THEN UNCHANGED << runs, scaler, price_predictor >>
        ELSE /\ runs' = runs + 1
             /\ scaler' = runs'
             /\ price_predictor' = runs'
     /\ UNCHANGED << trend_classifier, prophet_model, disk, saved, net >>

TrainTrendClassifierOn(n) ==
  LET r == TrainResult("train_trend_classifier", n)
  IN /\ runs < MaxRuns
     /\ feature_columns' = FeatureColumns
     /\ ret' = [op |-> "train_trend_classifier"] @@ r
     /\ IF r.raised
        THEN UNCHANGED << runs, scaler, trend_classifier >>
        ELSE /\ runs' = runs + 1
             /\ scaler' = runs'
             /\ trend_classifier' = runs'
     /\ UNCHANGED << price_predictor, prophet_model, disk, saved, net >>

\* training on the history the API handlers and train_ai_models pass in
TrainPricePredictor == TrainPricePredictorOn(HistoryRows)

TrainTrendClassifier == TrainTrendClassifierOn(HistoryRows)

TrainProphetModel ==
  /\ runs < MaxRuns
  /\ runs' = runs + 1
  /\ prophet_model' = runs'
  /\ ret' = [op |-> "train_prophet_model"]
  /\ UNCHANGED << price_predictor, trend_classifier, scaler, feature_columns,
                  disk, saved, net >>

\* mutant: inference refits the scaler on the row it is given
PredictPrice_Refit(x) ==
  /\ runs < MaxRuns
  /\ runs' = runs + 1
  /\ scaler' = runs'
  /\ ret' = [op |-> "predict_price", features |-> x]
            @@ PredictPriceResult(price_predictor, scaler, prophet_model,
                                  feature_columns, x)
  /\ UNCHANGED << price_predictor, trend_classifier, prophet_model,
                  feature_columns, disk, saved, net >>

PredictPrice(x) ==
  /\ ret' = [op |-> "predict_price", features |-> x]
            @@ PredictPriceResult(price_predictor, scaler, prophet_model,
                                  feature_columns, x)
  /\ UNCHANGED << price_predictor, trend_classifier, scaler, prophet_model,
                  feature_columns, runs, disk, saved, net >>

PredictTrend(x) ==
  /\ ret' = [op |-> "predict_trend", features |-> x]
            @@ PredictTrendResult(trend_classifier, scaler, feature_columns, x)
  /\ UNCHANGED << price_predictor, trend_classifier, scaler, prophet_model,
                  feature_columns, runs, disk, saved, net >>

GenerateTradingSignals(df) ==
  /\ feature_columns' = FeatureColumns
  /\ ret' = GenerateTradingSignalsResult(price_predictor, trend_classifier,
                                         scaler, prophet_model,
                                         feature_columns', df)
  /\ UNCHANGED << price_predictor, trend_classifier, scaler, prophet_model,
                  runs, disk, saved, net >>

\* ------------------------------------------------------------------------
\* save_models / load_models
\* ------------------------------------------------------------------------
Parts(pp, tc, sc, pm) ==
  [price_predictor |-> pp, trend_classifier |-> tc, scaler |-> sc,
   prophet_model |-> pm]

\* the state __init__ leaves an instance in
IsFresh ==
  /\ price_predictor = None
  /\ trend_classifier = None
  /\ scaler = Unfitted
  /\ prophet_model = None
  /\ feature_columns = << >>

\* joblib.dump under the four truth tests of save_models; a StandardScaler
\* object is always true, a member that is None leaves its file as it was
SavedDisk(d, pp, tc, sc, pm) ==
  [f \in FileNames |->
     IF f = "price_predictor.pkl" THEN (IF pp # None THEN << pp >> ELSE d[f])
     ELSE IF f = "trend_classifier.pkl" THEN (IF tc # None THEN << tc >> ELSE d[f])
     ELSE IF f = "scaler.pkl" THEN << sc >>
     ELSE (IF pm # None THEN << pm >> ELSE d[f])]

SaveModels ==
  /\ disk' = SavedDisk(disk, price_predictor, trend_classifier, scaler,
                       prophet_model)
  /\ saved' = << Parts(price_predictor, trend_classifier, scaler,
                       prophet_model) >>
  /\ ret' = [op |-> "save_models"]
  /\ UNCHANGED << price_predictor, trend_classifier, scaler, prophet_model,
                  feature_columns, runs, net >>

\* the number of joblib.load calls that return before the first one raises
\* (a missing or unreadable file), in the order of the try block
LoadCount(d) ==
  IF d[ModelFiles[1]] = << >> THEN 0
  ELSE IF d[ModelFiles[2]] = << >> THEN 1
  ELSE IF d[ModelFiles[3]] = << >> THEN 2
  ELSE IF d[ModelFiles[4]] = << >> THEN 3
  ELSE 4

\* the four parts after load_models: each assignment before the raising
\* joblib.load has happened, the later ones have not
LoadedParts(d, pp, tc, sc, pm) ==
  LET k == LoadCount(d)
  IN Parts(IF k >= 1 THEN d[ModelFiles[1]][1] ELSE pp,
           IF k >= 2 THEN d[ModelFiles[2]][1] ELSE tc,
           IF k >= 3 THEN d[ModelFiles[3]][1] ELSE sc,
           IF k >= 4 THEN d[ModelFiles[4]][1] ELSE pm)

LoadFailed(d) == LoadCount(d) < Len(ModelFiles)

\* what load_models logs
LoadLog(d) ==
  IF LoadFailed(d) THEN << "Error loading models" >>
  ELSE << "Models loaded successfully" >>

\* whether load_models raises to its caller: the except clause catches every
\* Exception and returns
LoadRaises(d) == FALSE

LoadInto(d) ==
  LET p == LoadedParts(d, price_predictor, trend_classifier, scaler,
                       prophet_model)
  IN /\ price_predictor' = p.price_predictor
     /\ trend_classifier' = p.trend_classifier
     /\ scaler' = p.scaler
     /\ prophet_model' = p.prophet_model

LoadModels ==
  /\ LoadInto(disk)
  /\ ret' = [op |-> "load_models", fresh |-> IsFresh,
             failed |-> LoadFailed(disk), raised |-> LoadRaises(disk),
             log |-> LoadLog(disk)]
  /\ UNCHANGED << feature_columns, runs, disk, saved, net >>

\* ------------------------------------------------------------------------
\* api.py: startup_event
\* ------------------------------------------------------------------------
StartupLog(d) ==
  << "Starting Solana AI Trader API..." >> \o LoadLog(d)
  \o (IF LoadRaises(d)
      THEN << "No pre-trained models found, will train on first request" >>
      ELSE << "Pre-trained models loaded successfully" >>)

\* runs once when the application starts, on the module-level ai_trader as
\* constructed at import
StartupEvent ==
  /\ IsFresh
  /\ LoadInto(disk)
  /\ ret' = [op |-> "startup_event", fresh |-> IsFresh,
             failed |-> LoadFailed(disk), log |-> StartupLog(disk)]
  /\ UNCHANGED << feature_columns, runs, disk, saved, net >>

\* ------------------------------------------------------------------------
\* The HTTP handlers /ai/predict and /ai/signals/{symbol}, on the global
\* ai_trader. A handler runs to its response without yielding: its one
\* await, fetch_historical_data, suspends nowhere.
\* ------------------------------------------------------------------------
SolanaTokens == {"SOL", "USDC", "USDT", "RAY", "SRM", "BONK"}

\* symbols of the requests
Symbols == {"SOL", "sol", "DOGE"}

\* str.upper() on the request symbols
Upper(symbol) == IF symbol = "sol" THEN "SOL" ELSE symbol

\* timeframe of a prediction request, echoed in the response
Timeframes == {"1h", "4h", "1d"}

\* last-row indicator values of the fetched history
Histories == [rsi : RsiReadings, macd_diff : MacdReadings]

\* mutant: the handler trains on every request
EnsureTrained_Unguarded(members) ==
  [trained |-> TRUE, runs |-> runs + members,
   price_predictor |-> runs + 1,
   trend_classifier |-> runs + 2, scaler |-> runs + 2,
   prophet_model |-> IF members = 3 THEN runs + 3 ELSE prophet_model,
   feature_columns |-> FeatureColumns]

\* "if not ai_trader.price_predictor": the fits the handler runs first,
\* members being the estimators it trains, scaler refitted by each of the
\* first two
EnsureTrained(members) ==
  IF price_predictor # None
  THEN [trained |-> FALSE, runs |-> runs,
        price_predictor |-> price_predictor,
        trend_classifier |-> trend_classifier, scaler |-> scaler,
        prophet_model |-> prophet_model, feature_columns |-> feature_columns]
  ELSE [trained |-> TRUE, runs |-> runs + members,
        price_predictor |-> runs + 1,
        trend_classifier |-> runs + 2, scaler |-> runs + 2,
        prophet_model |-> IF members = 3 THEN runs + 3 ELSE prophet_model,
        feature_columns |-> FeatureColumns]

\* the 404 raised for an unknown symbol is caught by the handler's own
\* "except Exception" and re-raised as 500
Rejected(op, symbol) ==
  /\ Upper(symbol) \notin SolanaTokens
  /\ ret' = [op |-> op, symbol |-> Upper(symbol), status |-> 500,
             detail |-> "404: Token not supported"]
  /\ UNCHANGED << price_predictor, trend_classifier, scaler, prophet_model,
                  feature_columns, runs, disk, saved, net >>

\* POST /ai/predict from the symbol test on, on the global ai_trader
PredictPriceHandler(symbol, timeframe, h) ==
     LET e == EnsureTrained(2)
         x == FeatureRow(h)
         price == PredictPriceResult(e.price_predictor, e.scaler,
                                     e.prophet_model, FeatureColumns, x)
         trend == PredictTrendResult(e.trend_classifier, e.scaler,
                                     FeatureColumns, x)
     IN /\ Upper(symbol) \in SolanaTokens
        /\ e.runs <= MaxFits
        /\ runs' = e.runs
        /\ price_predictor' = e.price_predictor
        /\ trend_classifier' = e.trend_classifier
        /\ scaler' = e.scaler
        /\ prophet_model' = e.prophet_model
        /\ feature_columns' = FeatureColumns
        /\ ret' = IF price.raised \/ trend.raised
                  THEN [op |-> "/ai/predict", symbol |-> Upper(symbol),
                        status |-> 500, detail |-> "transform"]
                  ELSE [op |-> "/ai/predict", symbol |-> Upper(symbol),
                        status |-> 200, predictions |-> price.predictions,
                        trend |-> trend.trend, timeframe |-> timeframe]
        /\ UNCHANGED << disk, saved >>

\* POST /ai/predict, from request to response
ApiPredictPrice(symbol, timeframe, h) ==
  \/ Rejected("/ai/predict", symbol)
  \/ PredictPriceHandler(symbol, timeframe, h) /\ UNCHANGED net

\* GET /ai/signals/{symbol} from the symbol test on: the fetched frame
\* carries the indicator columns into generate_trading_signals only when
\* the training calls of this request went over it
TradingSignalsHandler(symbol, h) ==
     LET e == EnsureTrained(3)
         df == [rsi |-> h.rsi, macd_diff |-> h.macd_diff,
                carried |-> e.trained]
         signals == GenerateTradingSignalsResult(
                      e.price_predictor, e.trend_classifier, e.scaler,
                      e.prophet_model, FeatureColumns, df)
     IN /\ Upper(symbol) \in SolanaTokens
        /\ e.runs <= MaxFits
        /\ runs' = e.runs
        /\ price_predictor' = e.price_predictor
        /\ trend_classifier' = e.trend_classifier
        /\ scaler' = e.scaler
        /\ prophet_model' = e.prophet_model
        /\ feature_columns' = FeatureColumns
        /\ ret' = IF signals.raised
                  THEN [op |-> "/ai/signals", symbol |-> Upper(symbol),
                        status |-> 500, detail |-> "transform"]
                  ELSE [op |-> "/ai/signals", symbol |-> Upper(symbol),
                        status |-> 200, data |-> signals]
        /\ UNCHANGED << disk, saved >>

\* GET /ai/signals/{symbol}, from request to response
GetTradingSignals(symbol, h) ==
  \/ Rejected("/ai/signals", symbol)
  \/ TradingSignalsHandler(symbol, h) /\ UNCHANGED net

\* GET /token/{symbol}/price and GET /token/{symbol}/analysis: for a
\* supported symbol the answer depends on the market-data client alone
\* (success, or 500 when it raises); the global ai_trader is not used
MarketDataHandler(op, symbol) ==
  \/ Rejected(op, symbol)
  \/ /\ Upper(symbol) \in SolanaTokens
     /\ \E status \in {200, 500} :
          ret' = [op |-> op, symbol |-> Upper(symbol), status |-> status]
     /\ UNCHANGED << price_predictor, trend_classifier, scaler, prophet_model,
                     feature_columns, runs, disk, saved, net >>

GetTokenPrice(symbol) == MarketDataHandler("/token/{symbol}/price", symbol)

GetTokenAnalysis(symbol) ==
  MarketDataHandler("/token/{symbol}/analysis", symbol)

\* ------------------------------------------------------------------------
\* Concurrent requests. A handler may be suspended at its await of
\* fetch_historical_data, after the symbol test and before the test of
\* ai_trader.price_predictor; from there to the response it runs without
\* another await. untrained_at_receipt notes what the request would have
\* seen of the regressor had it looked when it arrived.
\* ------------------------------------------------------------------------
\* the requests that are followed through their await
ConcurrentSymbols == {"SOL", "DOGE"}

ConcurrentHistories == [rsi : {25, 75}, macd_diff : {1}]

Suspend(op, symbol, timeframe, h) ==
  \/ Rejected(op, symbol)
  \/ LET req == [op |-> op, symbol |-> Upper(symbol),
                 timeframe |-> timeframe, h |-> h,
                 untrained_at_receipt |-> (price_predictor = None)]
     IN /\ Upper(symbol) \in SolanaTokens
        /\ Cardinality(pending) < MaxPending
        /\ req \notin pending
        /\ pending' = pending \cup {req}
        /\ ret' = [op |-> "await fetch_historical_data", request |-> req]
        /\ UNCHANGED << price_predictor, trend_classifier, scaler,
                        prophet_model, feature_columns, runs, disk, saved,
                        active_connections, sockets >>

ReceivePredict(symbol, h) == Suspend("/ai/predict", symbol, "1h", h)

ReceiveSignals(symbol, h) == Suspend("/ai/signals", symbol, "1h", h)

ResumePredict(req) ==
  /\ req \in pending
  /\ req.op = "/ai/predict"
  /\ pending' = pending \ {req}
  /\ PredictPriceHandler(req.symbol, req.timeframe, req.h)
  /\ UNCHANGED << active_connections, sockets >>

ResumeSignals(req) ==
  /\ req \in pending
  /\ req.op = "/ai/signals"
  /\ pending' = pending \ {req}
  /\ TradingSignalsHandler(req.symbol, req.h)
  /\ UNCHANGED << active_connections, sockets >>

\* ------------------------------------------------------------------------
\* The websocket endpoint /ws and the ConnectionManager. A websocket is
\* one accepted connection; its handler loops fetch, broadcast, sleep.
\* WebSocketDisconnect, the one exception the handler answers with
\* manager.disconnect, can only come out of a send, and every send is
\* inside broadcast's bare "except: pass".
\* ------------------------------------------------------------------------
Trader == << price_predictor, trend_classifier, scaler, prophet_model,
             feature_columns, runs, disk, saved >>

Connected == {active_connections[i] : i \in DOMAIN active_connections}

\* manager.connect: accept, then append
Connect(w) ==
  /\ sockets[w].client = "none"
  /\ \A v \in 1..(w - 1) : sockets[v].client # "none"
  /\ sockets' = [sockets EXCEPT ![w] = [client |-> "open", pc |-> "fetch"]]
  /\ active_connections' = Append(active_connections, w)
  /\ ret' = [op |-> "connect", websocket |-> w]
  /\ UNCHANGED << Trader, pending >>

\* market_data = await fetch_market_data()
FetchMarketData(w) ==
  /\ sockets[w].pc = "fetch"
  /\ sockets' = [sockets EXCEPT ![w].pc = "broadcast"]
  /\ ret' = [op |-> "fetch_market_data", websocket |-> w]
  /\ UNCHANGED << Trader, pending, active_connections >>

\* manager.broadcast: send_json to every connection of the list; a send
\* to a client that has gone away raises and the exception is passed over
Broadcast(w) ==
  /\ sockets[w].pc = "broadcast"
  /\ sockets' = [sockets EXCEPT ![w].pc = "sleep"]
  /\ ret' = [op |-> "broadcast", websocket |-> w,
             delivered |-> {c \in Connected : sockets[c].client = "open"},
             swallowed |-> {c \in Connected : sockets[c].client = "gone"}]
  /\ UNCHANGED << Trader, pending, active_connections >>

\* await asyncio.sleep(5)
Sleep(w) ==
  /\ sockets[w].pc = "sleep"
  /\ sockets' = [sockets EXCEPT ![w].pc = "fetch"]
  /\ ret' = [op |-> "sleep", websocket |-> w]
  /\ UNCHANGED << Trader, pending, active_connections >>

\* the environment: the client of a connection closes it or is lost
ClientGoesAway(w) ==
  /\ sockets[w].client = "open"
  /\ sockets' = [sockets EXCEPT ![w].client = "gone"]
  /\ ret' = [op |-> "client_goes_away", websocket |-> w]
  /\ UNCHANGED << Trader, pending, active_connections >>

\* ------------------------------------------------------------------------
\* The environment: a file of the save directory is removed or damaged
\* ------------------------------------------------------------------------
DamageFile(f) ==
  /\ disk[f] # << >>
  /\ disk' = [disk EXCEPT ![f] = << >>]
  /\ saved' = << >>
  /\ ret' = [op |-> "damage_file"]
  /\ UNCHANGED << price_predictor, trend_classifier, scaler, prophet_model,
                  feature_columns, runs, net >>

\* ------------------------------------------------------------------------
\* Specifications
\* ------------------------------------------------------------------------
\* The life of a trader instance and of its save directory: training,
\* inference, persistence, restart
Next ==
  \/ NewTrader
  \/ TrainPricePredictor
  \/ TrainTrendClassifier
  \/ TrainProphetModel
  \/ \E x \in FeatureRows : PredictPrice(x)
  \/ \E x \in FeatureRows : PredictTrend(x)
  \/ SaveModels
  \/ LoadModels
  \/ StartupEvent
  \/ \E f \in FileNames : DamageFile(f)

Spec == Init /\ [][Next]_vars

\* Signal fusion: generate_trading_signals on every series, in every state
\* of the ensemble that training reaches
SignalNext ==
  \/ NewTrader
  \/ TrainPricePredictor
  \/ TrainTrendClassifier
  \/ TrainProphetModel
  \/ \E df \in DataFrames : GenerateTradingSignals(df)

SignalSpec == Init /\ [][SignalNext]_vars

\* Frames handed to prepare_features between inference calls
Frames ==
  [present : SUBSET OhlcvColumns, shape : {"valid"},
   raw : {<< << >>, << 1 >> >>}]

\* Inference in every state of the ensemble that training reaches
InferenceNext ==
  \/ NewTrader
  \/ TrainPricePredictor
  \/ TrainTrendClassifier
  \/ TrainProphetModel
  \/ \E series \in Frames : PrepareFeatures(series)
  \/ \E x \in FeatureRows : PredictPrice(x)
  \/ \E x \in FeatureRows : PredictTrend(x)
  \/ \E df \in DataFrames : GenerateTradingSignals(df)

InferenceSpec == Init /\ [][InferenceNext]_vars

\* The HTTP layer: process starts and requests, in any order
ApiNext ==
  \/ NewTrader
  \/ StartupEvent
  \/ \E symbol \in Symbols : \E timeframe \in Timeframes :
       \E h \in Histories : ApiPredictPrice(symbol, timeframe, h)
  \/ \E symbol \in Symbols : \E h \in Histories : GetTradingSignals(symbol, h)
  \/ \E symbol \in Symbols : GetTokenPrice(symbol)
  \/ \E symbol \in Symbols : GetTokenAnalysis(symbol)

ApiSpec == Init /\ [][ApiNext]_vars

\* One process of the HTTP layer with requests suspended at their await
\* and resumed in any order
ConcurrentNext ==
  \/ StartupEvent
  \/ \E symbol \in ConcurrentSymbols : \E h \in ConcurrentHistories :
       ReceivePredict(symbol, h)
  \/ \E symbol \in ConcurrentSymbols : \E h \in ConcurrentHistories :
       ReceiveSignals(symbol, h)
  \/ \E req \in pending : ResumePredict(req)
  \/ \E req \in pending : ResumeSignals(req)

ConcurrentSpec == Init /\ [][ConcurrentNext]_vars

\* The websocket endpoint: connections come, their handlers loop, their
\* clients go away
WsNext ==
  \E w \in 1..MaxConnections :
    \/ Connect(w)
    \/ FetchMarketData(w)
    \/ Broadcast(w)
    \/ Sleep(w)
    \/ ClientGoesAway(w)

WsSpec == Init /\ [][WsNext]_vars

\* the event loop runs every handler that is ready to go on
WsFairSpec ==
  /\ WsSpec
  /\ \A w \in 1..MaxConnections :
       /\ WF_vars(FetchMarketData(w))
       /\ WF_vars(Broadcast(w))
       /\ WF_vars(Sleep(w))

\* Training on every series of 1..MaxBars bars
TrainNext ==
  \/ NewTrader
  \/ \E n \in 1..MaxBars : TrainPricePredictorOn(n)
  \/ \E n \in 1..MaxBars : TrainTrendClassifierOn(n)

TrainSpec == Init /\ [][TrainNext]_vars

\* The indicator engine and the feature builder on every series
IndicatorNext ==
  \/ NewTrader
  \/ \E series \in Series : CalculateTechnicalIndicators(series)
  \/ \E series \in Series : PrepareFeatures(series)

IndicatorSpec == Init /\ [][IndicatorNext]_vars

\* ------------------------------------------------------------------------
\* Claims
\* ------------------------------------------------------------------------
\* a signal was produced by the last call
Signalled == ret.op = "generate_trading_signals" /\ ~ret.raised

\* a mapping was returned by the last predict_price call
PriceReturned == ret.op = "predict_price" /\ ~ret.raised

FracSum(x, y) == Frac(x.n * y.d + y.n * x.d, x.d * y.d)
FracHalf(x) == Frac(x.n, 2 * x.d)

\* C1: in every signal, with b the bullish and s the bearish points the call
\* computed, the recommendation is BUY exactly when b > s+1, SELL exactly
\* when s > b+1 and HOLD exactly in every other case; the rule gives HOLD on
\* (3,3), BUY on (4,2) and SELL on (2,4).
C1_DecisionRule ==
  /\ Signalled =>
       LET b == ret.bullish_signals
           s == ret.bearish_signals
       IN /\ ret.recommendation \in {"BUY", "SELL", "HOLD"}
          /\ ret.recommendation = "BUY" <=> b > s + 1
          /\ ret.recommendation = "SELL" <=> s > b + 1
          /\ ret.recommendation = "HOLD" <=> (~(b > s + 1) /\ ~(s > b + 1))
  /\ Recommendation(3, 3) = "HOLD"
  /\ Recommendation(4, 2) = "BUY"
  /\ Recommendation(2, 4) = "SELL"

\* C1 witness: a signal whose bullish points lead by one only, so that the
\* margin decides (b = 2, s = 1, HOLD)
C1_Witness ==
  /\ Signalled
  /\ ret.bullish_signals = 2
  /\ ret.bearish_signals = 1
  /\ ret.recommendation = "HOLD"

\* C2: the confidence of a signal is b/(b+s) on BUY, s/(b+s) on SELL and
\* exactly 1/2 on HOLD, b and s being the points of that same signal.
C2_Confidence ==
  Signalled =>
    LET b == ret.bullish_signals
        s == ret.bearish_signals
    IN /\ ret.recommendation = "BUY" => FracEq(ret.confidence, Frac(b, b + s))
       /\ ret.recommendation = "SELL" => FracEq(ret.confidence, Frac(s, b + s))
       /\ ret.recommendation = "HOLD" => ret.confidence = Frac(1, 2)

\* C2 witness: a SELL signal of 3 bearish points against 1 bullish point,
\* with confidence 3/4
C2_Witness ==
  /\ Signalled
  /\ ret.recommendation = "SELL"
  /\ ret.bullish_signals = 1
  /\ ret.bearish_signals = 3
  /\ FracEq(ret.confidence, Frac(3, 4))

C4_UntrainedHold ==
  (/\ ret.op = "generate_trading_signals"
   /\ price_predictor = None
   /\ trend_classifier = None
   /\ prophet_model = None)
  => /\ ~ret.raised
     /\ ret.recommendation = "HOLD"
     /\ ret.confidence = Frac(1, 2)

\* C5: whenever the regressor is present the scaler of the instance is the
\* one fitted in the regressor's training run, and whenever the classifier
\* is present the scaler is the one fitted in the classifier's run.
C5_ScalerOfSameRun ==
  /\ price_predictor # None => scaler = price_predictor
  /\ trend_classifier # None => scaler = trend_classifier

\* C6: predict_price never raises because a member is absent (a call that
\* raises is one whose regressor is present and whose scaling step fails);
\* the mapping it returns names exactly the present members, an absent one
\* is left out; with no member present it returns the empty mapping.
C6_AbsentMembersLeftOut ==
  ret.op = "predict_price" =>
    /\ ret.raised =>
         (price_predictor # None /\ TransformRaises(scaler, feature_columns))
    /\ ~ret.raised =>
         /\ "random_forest" \in DOMAIN ret.predictions <=> price_predictor # None
         /\ "prophet" \in DOMAIN ret.predictions <=> prophet_model # None
    /\ (price_predictor = None /\ prophet_model = None) =>
         (~ret.raised /\ DOMAIN ret.predictions = {})

\* C6 witness: a call with the regressor absent and the forecaster present,
\* which returns the forecaster's prediction
C6_Witness ==
  /\ PriceReturned
  /\ price_predictor = None
  /\ prophet_model # None
  /\ DOMAIN ret.predictions = {"prophet", "ensemble"}

C8_RoundTrip ==
  (ret.op = "load_models" /\ ret.fresh /\ saved # << >>)
  => Parts(price_predictor, trend_classifier, scaler, prophet_model) = saved[1]

\* C9: a load_models that fails at one of its four files leaves the instance
\* untrained: regressor, classifier and forecaster all absent.
C9_FailedLoadUntrained ==
  (ret.op = "load_models" /\ ret.failed)
  => /\ price_predictor = None
     /\ trend_classifier = None
     /\ prophet_model = None

\* C10: when loading fails, startup_event does not take its success path: it
\* does not log 'Pre-trained models loaded successfully'.
C10_StartupSeesFailure ==
  (ret.op = "startup_event" /\ ret.failed)
  => \A i \in DOMAIN ret.log :
       ret.log[i] # "Pre-trained models loaded successfully"

\* the last call was one of the indicator engine or the feature builder
IndicatorCall == ret.op \in {"calculate_technical_indicators", "prepare_features"}

\* C12: the series calculate_technical_indicators returns has no undefined
\* cell in an indicator column, whatever the input series.
C12_FillIsTotal ==
  (IndicatorCall /\ ~ret.raised) =>
    /\ Len(ret.filled) = Len(ret.series.raw)
    /\ \A i \in DOMAIN ret.filled : ret.filled[i] # << >>

\* C12 witness: a returned series whose raw indicator column began with an
\* undefined cell and had another one further down
C12_Witness ==
  /\ ret.op = "calculate_technical_indicators"
  /\ ~ret.raised
  /\ Len(ret.series.raw) = 3
  /\ ret.series.raw[1] = << >>
  /\ ret.series.raw[2] # << >>
  /\ ret.series.raw[3] = << >>

\* C13: prepare_features returns the 15 feature columns, always the same
\* and in the same order, and the column list predict_price and
\* predict_trend select for scaling is that same list.
C13_SameColumns ==
  LET columns ==
        << "rsi", "macd", "macd_signal", "macd_diff", "bb_high", "bb_low",
           "bb_mid", "ema_9", "ema_21", "sma_50", "volume_ratio",
           "price_change", "high_low_ratio", "close_open_ratio",
           "volatility" >>
  IN /\ (ret.op = "prepare_features" /\ ~ret.raised) => ret.columns = columns
     /\ (ret.op = "predict_price" /\ price_predictor # None)
          => feature_columns = columns
     /\ (ret.op = "predict_trend" /\ trend_classifier # None)
          => feature_columns = columns

C16_CallerSeriesUntouched ==
  IndicatorCall => ret.caller = CallerFrame(ret.series)

\* C18: a series with duplicate or non-increasing timestamps, or with a
\* negative price or volume, is rejected before any indicator is computed.
C18_MalformedRejected ==
  (IndicatorCall /\ ret.series.shape # "valid")
  => /\ ret.raised
     /\ DOMAIN ret.caller \cap IndicatorColumns = {}

\* the last call was one of the two split-and-fit training operations
TrainCall == ret.op \in {"train_price_predictor", "train_trend_classifier"}

\* C15: a training call that fits splits its rows in time order: the test
\* partition is the last 20% of the rows, rounded up, the training
\* partition is the prefix before it, every training row is older than
\* every test row, and the scaler is fitted on the training rows only.
C15_ChronologicalSplit ==
  (TrainCall /\ ~ret.raised) =>
    /\ ret.train \cup ret.test = 1..ret.valid
    /\ ret.train \cap ret.test = {}
    /\ \A i \in ret.train : \A j \in ret.test : i < j
    /\ 5 * Cardinality(ret.test) >= ret.valid
    /\ 5 * (Cardinality(ret.test) - 1) < ret.valid
    /\ ret.scaler_fit = ret.train

\* C15 witness: a fit on 8 valid rows, where a fifth is not whole: 2 rows
\* are held out and 6 train
C15_Witness ==
  /\ TrainCall
  /\ ~ret.raised
  /\ ret.valid = 8
  /\ ret.train = 1..6
  /\ ret.test = {7, 8}
  /\ scaler = runs

\* C17: a training call on fewer bars than the largest indicator window
\* ends in an error and installs no model.
C17_InsufficientData ==
  (TrainCall /\ ret.rows < LargestWindow) =>
    /\ ret.raised
    /\ price_predictor = None
    /\ trend_classifier = None

\* the operations that only read the trained state
InferenceOps ==
  {"predict_price", "predict_trend", "prepare_features",
   "generate_trading_signals"}

\* C11: a step of predict_price, predict_trend, prepare_features or
\* generate_trading_signals leaves regressor, classifier, scaler and
\* forecaster as they were, for every input and every model state.
C11_InferenceLeavesParts ==
  [][ret'.op \in InferenceOps =>
       UNCHANGED << price_predictor, trend_classifier, scaler,
                    prophet_model >>]_vars

\* C11 witness: a predict_price call that returned on a fully trained
\* ensemble
C11_Witness ==
  /\ ret.op = "predict_price"
  /\ ~ret.raised
  /\ price_predictor # None
  /\ trend_classifier # None
  /\ prophet_model # None
  /\ scaler # Unfitted

\* C19: the RSI and MACD-histogram values a signal discretizes and scores
\* are the values computed for the last row of the series it was given,
\* whether or not the frame carried indicator columns.
C19_ScoresComputedValues ==
  Signalled =>
    /\ ret.rsi.value = ret.computed.rsi
    /\ ret.macd.value = ret.computed.macd_diff
    /\ ret.rsi.signal = RsiSignal(ret.computed.rsi)
    /\ ret.macd.signal = MacdSignal(ret.computed.macd_diff)

\* C20: after a /ai/signals request that returned successfully the
\* regressor, the classifier and the forecaster are all present.
C20_SignalsLeaveAllMembers ==
  (ret.op = "/ai/signals" /\ ret.status = 200) =>
    /\ price_predictor # None
    /\ trend_classifier # None
    /\ prophet_model # None

\* C22: the RSI of a signal is oversold exactly when its value is below 30,
\* overbought exactly when it is above 70 and neutral otherwise (30 and 70
\* are neutral); the MACD histogram is bullish exactly when its value is
\* greater than 0 and bearish otherwise.
C22_Discretization ==
  Signalled =>
    /\ ret.rsi.signal = "oversold" <=> ret.rsi.value < 30
    /\ ret.rsi.signal = "overbought" <=> ret.rsi.value > 70
    /\ ret.rsi.signal = "neutral" <=> (ret.rsi.value >= 30 /\ ret.rsi.value <= 70)
    /\ ret.macd.signal = "bullish" <=> ret.macd.value > 0
    /\ ret.macd.signal = "bearish" <=> ret.macd.value <= 0

\* C22 witness: a signal scored on RSI exactly 30 and MACD histogram
\* exactly 0
C22_Witness ==
  /\ Signalled
  /\ ret.rsi.value = 30
  /\ ret.rsi.signal = "neutral"
  /\ ret.macd.value = 0
  /\ ret.macd.signal = "bearish"

\* C24: in the returned series a cell that was defined is unchanged, an
\* undefined cell below a defined one holds the nearest defined value
\* above it, and an undefined cell with no defined value above it holds 0.
C24_ForwardThenZero ==
  (IndicatorCall /\ ~ret.raised) =>
    LET raw == ret.series.raw
        defined(i) == {j \in 1..i : raw[j] # << >>}
    IN \A i \in DOMAIN raw :
         /\ i \in DOMAIN ret.filled
         /\ raw[i] # << >> => ret.filled[i] = raw[i]
         /\ (raw[i] = << >> /\ defined(i) # {}) =>
              ret.filled[i] =
                raw[CHOOSE j \in defined(i) : \A k \in defined(i) : k <= j]
         /\ (raw[i] = << >> /\ defined(i) = {}) => ret.filled[i] = << 0 >>

\* C24 witness: a column of three rows holding 1, 2, undefined: the last
\* cell takes the 2 above it, not the 1
C24_Witness ==
  /\ ret.op = "calculate_technical_indicators"
  /\ ~ret.raised
  /\ ret.series.raw = << << 1 >>, << 2 >>, << >> >>
  /\ ret.filled = << << 1 >>, << 2 >>, << 2 >> >>

\* C25: the last 5 rows of the series, which have no close 5 rows later,
\* are removed before the classifier's train/test split.
C25_LastRowsRemoved ==
  (ret.op = "train_trend_classifier" /\ ~ret.raised) =>
    \A i \in ret.train \cup ret.test : i + 5 <= ret.rows

\* C26: in every signal b+s is 3 or 4, the confidence is 1/2, 3/4 or 1, BUY
\* occurs only with a bullish trend and SELL only with a trend that is not
\* bullish.
C26_SignalRange ==
  Signalled =>
    /\ ret.bullish_signals + ret.bearish_signals \in {3, 4}
    /\ \/ FracEq(ret.confidence, Frac(1, 2))
       \/ FracEq(ret.confidence, Frac(3, 4))
       \/ FracEq(ret.confidence, Frac(1, 1))
    /\ ret.recommendation = "BUY" => ret.trend_analysis = "bullish"
    /\ ret.recommendation = "SELL" => ret.trend_analysis # "bullish"

\* C26 witness: a BUY on a bullish trend with 3 points against 1
C26_Witness ==
  /\ Signalled
  /\ ret.recommendation = "BUY"
  /\ ret.trend_analysis = "bullish"
  /\ ret.bullish_signals = 3
  /\ ret.bearish_signals = 1
  /\ FracEq(ret.confidence, Frac(3, 4))

\* the HTTP handlers that test the symbol
SymbolRoutes ==
  {"/token/{symbol}/price", "/token/{symbol}/analysis", "/ai/predict",
   "/ai/signals"}

\* C21: a request to one of the four symbol routes for a symbol that is not
\* in SOLANA_TOKENS is answered with status 404.
C21_UnknownSymbolIs404 ==
  (ret.op \in SymbolRoutes /\ ret.symbol \notin SolanaTokens) =>
    ret.status = 404

\* C23: a connection whose client has gone away is eventually removed
\* from active_connections.
C23_GoneEventuallyRemoved ==
  \A w \in 1..MaxConnections :
    (sockets[w].client = "gone") ~> (w \notin Connected)

\* C27: once the regressor is present no step of any request, in any
\* interleaving at the awaits, retrains or replaces the regressor, the
\* classifier, the scaler or the forecaster; so each member is fitted at
\* most once.
C27_TrainedAtMostOnce ==
  [][price_predictor # None =>
       UNCHANGED << price_predictor, trend_classifier, scaler,
                    prophet_model >>]_vars

\* C27 witness: a /ai/signals request answered without training while a
\* request that arrived before any training is still suspended
C27_Witness ==
  /\ ret.op = "/ai/signals"
  /\ ret.status = 200
  /\ price_predictor # None
  /\ \E req \in pending : req.untrained_at_receipt

====
